---- MODULE Spec2Model ----
(***************************************************************************)
(* Reorder Schematic Fields plugin (V_eeschema_reorder_fields_plugin.py).  *)
(*                                                                         *)
(* A line of text is a sequence of tokens.  The tokens the block scanner   *)
(* tells apart are LP "(", RP ")", DQ (the double quote), BS (the          *)
(* backslash) and NL (the line ending kept by splitlines(keepends=True));  *)
(* every other token stands for a run of plain characters: KW_SYMBOL and   *)
(* KW_PROPERTY for the keywords (with the blanks after them), a property   *)
(* name, "v" for a value, "x" for anything else.                           *)
(* Line numbers are 1-based here (Python's are 0-based), which leaves 0    *)
(* free to stand for Python's None where a line number is optional.       *)
(*                                                                         *)
(* Five specifications share the variables: SpecScan (find_block_end),     *)
(* SpecReorder (absolute_order_user_props_casefold), SpecReconcile         *)
(* (reconcile_gui_with_present), SpecRewrite (the rewrite of a document's  *)
(* lines, once and again) and Spec: the dialog on the files of one         *)
(* schematic, with write_atomic taken step by step, each file operation    *)
(* of it failing or not, and the process ending between two steps.  In     *)
(* Spec a file is a text, the tokens of its lines in a row; texts hold NL  *)
(* as their only line ending, so reading one translates nothing.  The      *)
(* temporary file of atomic_write_json is not kept in the state: a save    *)
(* of the order list replaces the order-state file or leaves it.           *)
(***************************************************************************)
EXTENDS Integers, Sequences, FiniteSets, TLC

LP == "("
RP == ")"
DQ == "\""
BS == "\\"
NL == "nl"
KW_SYMBOL == "symbol"
KW_PROPERTY == "property"
None == 0

\* ---------------------------------------------------------------- bounds
MaxChars == 6
MaxProps == 4
MaxTarget == 2
MaxOrderLen == 3
MaxLines == 3
MaxPasses == 2
MaxFields == 2

\* ------------------------------------------------- constants / helpers
INTERNAL_FIELDS ==
  {"ki_keywords", "ki_fp_filters", "ki_description",
   "name", "reference", "value", "footprint", "datasheet", "description"}

\* _norm: strip, then lower-case, spelled out on the names of the model
\* (every other name of the model is already trimmed lower case).
_norm(s) ==
  CASE s \in {"MPN", "mpn", " Mpn "} -> "mpn"
    [] s \in {"Tol", "TOL"} -> "tol"
    [] s \in {"Pkg"} -> "pkg"
    [] s \in {"Gone"} -> "gone"
    [] s \in {"Reference"} -> "reference"
    [] s \in {"VALUE"} -> "value"
    [] s \in {"Footprint"} -> "footprint"
    [] OTHER -> s

_is_internal(name) == _norm(name) \in INTERNAL_FIELDS

\* ------------------------------------------------ s-expression helpers
\* The scanner state of find_block_end.
ScanInit == [depth |-> 0, in_str |-> FALSE, esc |-> FALSE, seen_open |-> FALSE]

\* The two nested loops of find_block_end, from character j of line i.
RECURSIVE ScanFrom(_, _, _, _, _)
ScanFrom(lines, last, i, j, st) ==
  IF i > last THEN last
  ELSE IF j > Len(lines[i]) THEN ScanFrom(lines, last, i + 1, 1, st)
  ELSE LET ch == lines[i][j] IN
    IF st.esc THEN ScanFrom(lines, last, i, j + 1, [st EXCEPT !.esc = FALSE])
    ELSE IF ch = BS THEN ScanFrom(lines, last, i, j + 1, [st EXCEPT !.esc = TRUE])
    ELSE IF ch = DQ
      THEN ScanFrom(lines, last, i, j + 1, [st EXCEPT !.in_str = ~st.in_str])
    ELSE IF st.in_str THEN ScanFrom(lines, last, i, j + 1, st)
    ELSE IF ch = LP
      THEN ScanFrom(lines, last, i, j + 1,
                    [st EXCEPT !.depth = st.depth + 1, !.seen_open = TRUE])
    ELSE IF ch = RP
      THEN IF st.seen_open /\ st.depth - 1 = 0
             THEN i
             ELSE ScanFrom(lines, last, i, j + 1, [st EXCEPT !.depth = st.depth - 1])
    ELSE ScanFrom(lines, last, i, j + 1, st)

\* The scanner with the quoted-string flag left out (parentheses counted
\* inside strings as well).
RECURSIVE ScanFromNoStr(_, _, _, _, _)
ScanFromNoStr(lines, last, i, j, st) ==
  IF i > last THEN last
  ELSE IF j > Len(lines[i]) THEN ScanFromNoStr(lines, last, i + 1, 1, st)
  ELSE LET ch == lines[i][j] IN
    IF st.esc THEN ScanFromNoStr(lines, last, i, j + 1, [st EXCEPT !.esc = FALSE])
    ELSE IF ch = BS THEN ScanFromNoStr(lines, last, i, j + 1, [st EXCEPT !.esc = TRUE])
    ELSE IF ch = LP
      THEN ScanFromNoStr(lines, last, i, j + 1,
                         [st EXCEPT !.depth = st.depth + 1, !.seen_open = TRUE])
    ELSE IF ch = RP
      THEN IF st.seen_open /\ st.depth - 1 = 0
             THEN i
             ELSE ScanFromNoStr(lines, last, i, j + 1,
                                [st EXCEPT !.depth = st.depth - 1])
    ELSE ScanFromNoStr(lines, last, i, j + 1, st)

find_block_end_nostr(lines, start_line, limit_line) ==
  LET last == IF limit_line # None THEN limit_line ELSE Len(lines)
  IN ScanFromNoStr(lines, last, start_line, 1, ScanInit)

find_block_end(lines, start_line, limit_line) ==
  LET last == IF limit_line # None THEN limit_line ELSE Len(lines)
  IN ScanFrom(lines, last, start_line, 1, ScanInit)

\* str.splitlines(keepends) on a text whose only line ending is NL.
RECURSIVE SplitFrom(_, _, _, _)
SplitFrom(text, k, cur, keepends) ==
  IF k > Len(text) THEN (IF cur = <<>> THEN <<>> ELSE <<cur>>)
  ELSE IF text[k] = NL
    THEN <<IF keepends THEN Append(cur, NL) ELSE cur>>
         \o SplitFrom(text, k + 1, <<>>, keepends)
    ELSE SplitFrom(text, k + 1, Append(cur, text[k]), keepends)

splitlines(text, keepends) == SplitFrom(text, 1, <<>>, keepends)

\* RE_SYM_START  ^\s*\(symbol\b  on a line of tokens (the lines of the model
\* carry no leading blanks).
RE_SYM_START(line) == Len(line) >= 2 /\ line[1] = LP /\ line[2] = KW_SYMBOL

\* RE_PROP_START  ^\s*\(property\s+"([^"]+)"\s+"([^"]*)"  on a line of tokens:
\* the keyword, a quoted name of one token, and a second quoted string that is
\* closed on the same line.
RE_PROP_START(line) ==
  /\ Len(line) >= 7
  /\ line[1] = LP /\ line[2] = KW_PROPERTY
  /\ line[3] = DQ /\ line[4] # DQ /\ line[5] = DQ
  /\ line[6] = DQ
  /\ \E k \in 7..Len(line) : line[k] = DQ
\* m.group(1)
PropName(line) == line[4]

RECURSIVE SymBoundsFrom(_, _, _)
\* out.append((i, j)); i = j + 1
SymBoundsNext(lines, i, j, out) == SymBoundsFrom(lines, j + 1, Append(out, <<i, j>>))
SymBoundsFrom(lines, i, out) ==
  IF i > Len(lines) THEN out
  ELSE IF RE_SYM_START(lines[i])
    THEN SymBoundsNext(lines, i, find_block_end(lines, i, None), out)
    ELSE SymBoundsFrom(lines, i + 1, out)

find_symbol_bounds(lines) == SymBoundsFrom(lines, 1, <<>>)

RECURSIVE PropsFrom(_, _, _, _)
\* props.append({...}); i = end + 1
PropsNext(lines, i, end, s1, props) ==
  PropsFrom(lines, end + 1, s1,
            Append(props, [name |-> PropName(lines[i]), start |-> i, end |-> end,
                           text |-> SubSeq(lines, i, end),
                           internal |-> _is_internal(PropName(lines[i]))]))
PropsFrom(lines, i, s1, props) ==
  IF i > s1 THEN props
  ELSE IF RE_PROP_START(lines[i])
    THEN PropsNext(lines, i, find_block_end(lines, i, s1), s1, props)
    ELSE PropsFrom(lines, i + 1, s1, props)

\* extract_properties with the filter on internal names left out.
extract_properties_unfiltered(lines, s0, s1) ==
  LET props == PropsFrom(lines, s0, s1, <<>>)
  IN [props |-> props, user_props |-> props]

extract_properties(lines, s0, s1) ==
  LET props == PropsFrom(lines, s0, s1, <<>>)
  IN [props |-> props, user_props |-> SelectSeq(props, LAMBDA p : ~p.internal)]

\* ------- detect present field names / reconcile (pure list functions)
\* The keys of a list of names in first-occurrence order: the insertion
\* order of the dict  { _norm(n): n for n in present }.
RECURSIVE DictKeys(_, _)
DictKeys(names, acc) ==
  IF names = <<>> THEN acc
  ELSE LET k == _norm(Head(names)) IN
    DictKeys(Tail(names),
             IF \E i \in 1..Len(acc) : acc[i] = k THEN acc ELSE Append(acc, k))

\* The label the dict holds for key k: the last name of the list with that key.
DictLabel(names, k) ==
  names[CHOOSE i \in 1..Len(names) :
          /\ _norm(names[i]) = k
          /\ \A j \in (i + 1)..Len(names) : _norm(names[j]) # k]

\* The first loop of reconcile_gui_with_present: the names of current_gui
\* whose key is present and not kept yet.
RECURSIVE KeepLoop(_, _, _)
KeepLoop(current_gui, present_keys, kept) ==
  IF current_gui = <<>> THEN kept
  ELSE LET n == Head(current_gui)
           k == _norm(n)
       IN KeepLoop(Tail(current_gui), present_keys,
                   IF /\ k \in present_keys
                      /\ \A i \in 1..Len(kept) : _norm(kept[i]) # k
                     THEN Append(kept, n) ELSE kept)

\* The first loop without its  k not in kept_keys  test.
RECURSIVE KeepLoopNoDedup(_, _, _)
KeepLoopNoDedup(current_gui, present_keys, kept) ==
  IF current_gui = <<>> THEN kept
  ELSE LET n == Head(current_gui)
           k == _norm(n)
       IN KeepLoopNoDedup(Tail(current_gui), present_keys,
                          IF k \in present_keys THEN Append(kept, n) ELSE kept)

reconcile_no_dedup(current_gui, present) ==
  LET keys == DictKeys(present, <<>>)
      present_keys == {keys[i] : i \in 1..Len(keys)}
      kept0 == KeepLoopNoDedup(current_gui, present_keys, <<>>)
      kept_keys == {_norm(kept0[i]) : i \in 1..Len(kept0)}
      new_keys == SelectSeq(keys, LAMBDA k : k \notin kept_keys)
      added == [i \in 1..Len(new_keys) |-> DictLabel(present, new_keys[i])]
  IN [kept |-> kept0 \o added,
      removed |-> SelectSeq(current_gui, LAMBDA n : _norm(n) \notin present_keys),
      added |-> added]

\* The second loop appends to the names kept, and a key it adds was not kept
\* before, so the labels it appends are those of the present keys not kept by
\* the first loop, in the dict's order.
reconcile_gui_with_present(current_gui, present) ==
  LET keys == DictKeys(present, <<>>)
      present_keys == {keys[i] : i \in 1..Len(keys)}
      kept0 == KeepLoop(current_gui, present_keys, <<>>)
      kept_keys == {_norm(kept0[i]) : i \in 1..Len(kept0)}
      new_keys == SelectSeq(keys, LAMBDA k : k \notin kept_keys)
      added == [i \in 1..Len(new_keys) |-> DictLabel(present, new_keys[i])]
  IN [kept |-> kept0 \o added,
      removed |-> SelectSeq(current_gui, LAMBDA n : _norm(n) \notin present_keys),
      added |-> added]

\* ------------------------------------------------ per-symbol reordering
\* The inner loop of absolute_order_user_props_casefold for one wanted key:
\* every record not selected yet whose key is wkey is appended and selected.
\* acc = [ordered, selected], selected the set of selected indexes.
RECURSIVE SelectLoop(_, _, _, _)
SelectLoop(user_props, wkey, idx, acc) ==
  IF idx > Len(user_props) THEN acc
  ELSE LET p == user_props[idx] IN
    IF idx \notin acc.selected /\ _norm(p.name) = wkey
      THEN SelectLoop(user_props, wkey, idx + 1,
                      [ordered |-> Append(acc.ordered, <<p.name, p.text>>),
                       selected |-> acc.selected \cup {idx}])
      ELSE SelectLoop(user_props, wkey, idx + 1, acc)

\* The same loop leaving at its first match (one record per wanted key
\* occurrence), as section 4.4 of the specification words it.
RECURSIVE SelectFirst(_, _, _, _)
SelectFirst(user_props, wkey, idx, acc) ==
  IF idx > Len(user_props) THEN acc
  ELSE LET p == user_props[idx] IN
    IF idx \notin acc.selected /\ _norm(p.name) = wkey
      THEN [ordered |-> Append(acc.ordered, <<p.name, p.text>>),
            selected |-> acc.selected \cup {idx}]
      ELSE SelectFirst(user_props, wkey, idx + 1, acc)

RECURSIVE WantedLoopFirst(_, _, _)
WantedLoopFirst(user_props, wanted_keys, acc) ==
  IF wanted_keys = <<>> THEN acc
  ELSE WantedLoopFirst(user_props, Tail(wanted_keys),
                       SelectFirst(user_props, Head(wanted_keys), 1, acc))

\* The outer loop over wanted_keys.
RECURSIVE WantedLoop(_, _, _)
WantedLoop(user_props, wanted_keys, acc) ==
  IF wanted_keys = <<>> THEN acc
  ELSE WantedLoop(user_props, Tail(wanted_keys),
                  SelectLoop(user_props, Head(wanted_keys), 1, acc))

\* The last loop: the records never selected, in their order.
StableTail(user_props, selected) ==
  LET rest == SelectSeq([i \in 1..Len(user_props) |-> i],
                        LAMBDA i : i \notin selected)
  IN [k \in 1..Len(rest) |-> <<user_props[rest[k]].name, user_props[rest[k]].text>>]

\* wanted_keys = [_norm(x) for x in gui_list]
WantedKeysOf(gui_list) == [i \in 1..Len(gui_list) |-> _norm(gui_list[i])]
NoneSelected == [ordered |-> <<>>, selected |-> {}]
\* The result: the records selected, then the stable tail.
WithTail(user_props, acc) == acc.ordered \o StableTail(user_props, acc.selected)

absolute_order_first_only(user_props, gui_list) ==
  WithTail(user_props,
           WantedLoopFirst(user_props, WantedKeysOf(gui_list), NoneSelected))

\* The matched records with the stable tail put first.
TailFirst(user_props, acc) == StableTail(user_props, acc.selected) \o acc.ordered
absolute_order_tail_first(user_props, gui_list) ==
  TailFirst(user_props, WantedLoop(user_props, WantedKeysOf(gui_list), NoneSelected))

\* The records appended under the wanted spelling instead of their own.
Renamed(user_props, acc) ==
  [i \in 1..Len(acc.ordered) |-> <<_norm(acc.ordered[i][1]), acc.ordered[i][2]>>]
  \o StableTail(user_props, acc.selected)
absolute_order_renaming(user_props, gui_list) ==
  Renamed(user_props, WantedLoop(user_props, WantedKeysOf(gui_list), NoneSelected))

absolute_order_user_props_casefold(user_props, gui_list) ==
  WithTail(user_props, WantedLoop(user_props, WantedKeysOf(gui_list), NoneSelected))

Reverse(seq) == [k \in 1..Len(seq) |-> seq[Len(seq) + 1 - k]]

\* del seg[start:end] : the last line of every record left behind.
RECURSIVE DeleteBlocksShort(_, _)
DeleteBlocksShort(seg, ps) ==
  IF ps = <<>> THEN seg
  ELSE LET p == Head(ps)
       IN DeleteBlocksShort(SubSeq(seg, 1, p.start - 1) \o SubSeq(seg, p.end, Len(seg)),
                            Tail(ps))

\* del seg[start:end+1] for the records of ps, one after the other.
RECURSIVE DeleteBlocks(_, _)
DeleteBlocks(seg, ps) ==
  IF ps = <<>> THEN seg
  ELSE LET p == Head(ps)
       IN DeleteBlocks(SubSeq(seg, 1, p.start - 1) \o SubSeq(seg, p.end + 1, Len(seg)),
                       Tail(ps))

\* seg[insert_at:insert_at] = block for the blocks of ordered, insert_at moved
\* on by each block's length (a slice past the end inserts at the end).
RECURSIVE InsertBlocks(_, _, _)
InsertBlocks(seg, insert_at, blocks) ==
  IF blocks = <<>> THEN seg
  ELSE LET at == IF insert_at > Len(seg) + 1 THEN Len(seg) + 1 ELSE insert_at
           block == Head(blocks)[2]
       IN InsertBlocks(SubSeq(seg, 1, at - 1) \o block \o SubSeq(seg, at, Len(seg)),
                       insert_at + Len(block), Tail(blocks))

MinStart(ps) == CHOOSE m \in {ps[i].start : i \in 1..Len(ps)} :
                  \A i \in 1..Len(ps) : m <= ps[i].start

\* process_symbol_segment from  before == after  on.
\* sorted(user_props, key=start, reverse=True): the records are extracted by
\* rising start, so this is the list reversed.
SpliceSegment(seg, user_props, ordered) ==
  IF [i \in 1..Len(user_props) |-> user_props[i].name]
       = [i \in 1..Len(ordered) |-> ordered[i][1]]
    THEN [changed |-> FALSE, seg |-> seg]
    ELSE [changed |-> TRUE,
          seg |-> InsertBlocks(DeleteBlocks(seg, Reverse(user_props)),
                               MinStart(user_props), ordered)]

\* process_symbol_segment once the user properties are extracted.
ReorderSegment(seg, gui_list, user_props) ==
  IF user_props = <<>> THEN [changed |-> FALSE, seg |-> seg]
  ELSE SpliceSegment(seg, user_props,
                     absolute_order_user_props_casefold(user_props, gui_list))

process_symbol_segment(seg, gui_list) ==
  ReorderSegment(seg, gui_list, extract_properties(seg, 1, Len(seg)).user_props)

\* stats["hits"] after the loops over one segment: for every entry of gui_list
\* (the dict is keyed by the entry's spelling) the user records of its key.
CountHits(hits, uprops, gui_list) ==
  [name \in DOMAIN hits |->
     hits[name]
     + Cardinality({<<w, q>> \in (1..Len(gui_list)) \X (1..Len(uprops)) :
                      gui_list[w] = name /\ _norm(uprops[q].name) = _norm(name)})]
SegmentHits(hits, seg, gui_list) ==
  CountHits(hits, extract_properties(seg, 1, Len(seg)).user_props, gui_list)

\* The loop of process_file_reorder_only over reversed(bounds); k counts the
\* bounds still to do.  st = [lines, changed_any, hits, symbols_touched].
\* The end of the loop body: lines[s0:s1+1] = seg_new and the counters, if the
\* segment changed.
\* The same with symbols_touched left as it was.
FileStepUncounted(st, s0, s1, r, hits) ==
  IF r.changed
    THEN [lines |-> SubSeq(st.lines, 1, s0 - 1) \o r.seg
                      \o SubSeq(st.lines, s1 + 1, Len(st.lines)),
          changed_any |-> TRUE,
          hits |-> hits,
          symbols_touched |-> st.symbols_touched]
    ELSE [st EXCEPT !.hits = hits]

FileStep(st, s0, s1, r, hits) ==
  IF r.changed
    THEN [lines |-> SubSeq(st.lines, 1, s0 - 1) \o r.seg
                      \o SubSeq(st.lines, s1 + 1, Len(st.lines)),
          changed_any |-> TRUE,
          hits |-> hits,
          symbols_touched |-> st.symbols_touched + 1]
    ELSE [st EXCEPT !.hits = hits]

\* The loop body on seg = lines[s0:s1+1].
FileSegment(st, s0, s1, seg, gui_list) ==
  FileStep(st, s0, s1, process_symbol_segment(seg, gui_list),
           SegmentHits(st.hits, seg, gui_list))

RECURSIVE FileLoop(_, _, _, _)
FileLoop(bounds, k, gui_list, st) ==
  IF k = 0 THEN st
  ELSE FileLoop(bounds, k - 1, gui_list,
                FileSegment(st, bounds[k][1], bounds[k][2],
                            SubSeq(st.lines, bounds[k][1], bounds[k][2]), gui_list))

\* process_file_reorder_only up to its commit: lines are the lines of the text
\* read, line endings kept.
RewriteWith(lines, gui_list, bounds) ==
  FileLoop(bounds, Len(bounds), gui_list,
           [lines |-> lines, changed_any |-> FALSE,
            hits |-> [name \in {gui_list[i] : i \in 1..Len(gui_list)} |-> 0],
            symbols_touched |-> 0])
RewriteLines(lines, gui_list) == RewriteWith(lines, gui_list, find_symbol_bounds(lines))

\* The loop of collect_field_names_present over one symbol.
\* if not _is_internal(name): key = _norm(name); if key not in seen: ...
Collected(names, name) ==
  IF /\ ~_is_internal(name)
     /\ \A q \in 1..Len(names) : _norm(names[q]) # _norm(name)
    THEN Append(names, name) ELSE names

RECURSIVE CollectFrom(_, _, _, _)
CollectFrom(lines, i, s1, names) ==
  IF i > s1 THEN names
  ELSE IF RE_PROP_START(lines[i])
    THEN CollectFrom(lines, find_block_end(lines, i, s1) + 1, s1,
                     Collected(names, PropName(lines[i])))
    ELSE CollectFrom(lines, i + 1, s1, names)

RECURSIVE CollectSymbols(_, _, _, _)
CollectSymbols(lines, bounds, k, names) ==
  IF k > Len(bounds) THEN names
  ELSE CollectSymbols(lines, bounds, k + 1,
                      CollectFrom(lines, bounds[k][1], bounds[k][2], names))

\* collect_field_names_present on the lines of the text, line endings dropped.
collect_field_names_present(lines) ==
  CollectSymbols(lines, find_symbol_bounds(lines), 1, <<>>)

\* ------------------------------------------------------ files and dialog
\* A file of the disk: absent, or there with its content.
NoFile == <<>>
File(data) == <<data>>
Exists(f) == f # NoFile
Data(f) == f[1]

\* "".join(lines)
RECURSIVE JoinLines(_)
JoinLines(lines) ==
  IF lines = <<>> THEN <<>> ELSE Head(lines) \o JoinLines(Tail(lines))

\* The order-state file holds a JSON value: a list, a dictionary with a list
\* under "order" (what save_order_json_for_schematic writes), or anything
\* else.  load_order_json returns the list, or nothing.
JsonValue(kind, order) == [kind |-> kind, order |-> order]
load_order_json(f) ==
  IF ~Exists(f) THEN [is_list |-> FALSE, order |-> <<>>]
  ELSE IF Data(f).kind \in {"list", "dict"}
    THEN [is_list |-> TRUE, order |-> Data(f).order]
    ELSE [is_list |-> FALSE, order |-> <<>>]
save_order_json_for_schematic(order) == File(JsonValue("dict", order))

\* wx.NOT_FOUND; the list box numbers its rows from 1 here.
NOT_FOUND == 0
\* _render_items: the selection after listbox.Set(items).
_render_items(items) == IF Len(items) > 0 THEN 1 ELSE NOT_FOUND
_swap_item_labels(items, i, j) == [items EXCEPT ![i] = items[j], ![j] = items[i]]

\* try_remove_stale_lock and try_remove_project_locks, their unlinks taken
\* to succeed: the lock files left of those there.
LocksLeft(locks) == {}

\* What a handler worked out: the list it had (prev), the list it saved or
\* tried to save (saved: the write went through), the names reconcile gave as
\* removed and added, and from process_file_reorder_only changed_any,
\* symbols_touched and the names of the list with no hit (zero, as on_apply
\* lists them).
Report(op, saved, prev, order, removed, added, changed, n_syms, zero) ==
  [op |-> op, saved |-> saved, prev |-> prev, order |-> order,
   removed |-> removed, added |-> added, changed |-> changed,
   n_syms |-> n_syms, zero |-> zero]
NoReport == Report("none", FALSE, <<>>, <<>>, <<>>, <<>>, FALSE, 0, <<>>)
\* zero = [n for n, cnt in stats["hits"].items() if cnt == 0]
ZeroHits(order, hits) == SelectSeq(order, LAMBDA n : hits[n] = 0)

\* ----------------------------------------------------------- variables
VARIABLES
  disk_doc, disk_bak, disk_tmp, disk_json, locks,    \* the files of a schematic
  current_sch, items, present_names, selection,      \* the dialog
  pc, content, pre_doc, pre_bak, commit,             \* a running write_atomic
  report,                                            \* what a handler reports
  scan_lines, scan_start, scan_limit, scan_result,   \* one find_block_end call
  user_props, gui_list, ordered, reorder_done,       \* one reorder of a block
  current_gui, present, rec, rec_done,               \* one reconciliation
  file_lines, file_order, prev_lines, passes,        \* rewrites of one document
  changed_any, symbols_touched, hits

scanVars == <<scan_lines, scan_start, scan_limit, scan_result>>
reorderVars == <<user_props, gui_list, ordered, reorder_done>>
reconcileVars == <<current_gui, present, rec, rec_done>>
rewriteVars == <<file_lines, file_order, prev_lines, passes,
                 changed_any, symbols_touched, hits>>
diskVars == <<disk_doc, disk_bak, disk_tmp, disk_json, locks>>
dialogVars == <<current_sch, items, present_names, selection>>
commitVars == <<pc, content, pre_doc, pre_bak, commit>>
appVars == <<diskVars, dialogVars, commitVars, report>>
vars == <<scanVars, reorderVars, reconcileVars, rewriteVars, appVars>>

\* Sequences over S of length at most n.
SeqUpTo(S, n) == UNION {[1..k -> S] : k \in 0..n}

\* The state of the parts a specification does not exercise.
NoScan ==
  scan_lines = <<>> /\ scan_start = 0 /\ scan_limit = None /\ scan_result = 0
NoReorder ==
  user_props = <<>> /\ gui_list = <<>> /\ ordered = <<>> /\ reorder_done = FALSE
NoReconcile ==
  /\ current_gui = <<>> /\ present = <<>> /\ rec_done = FALSE
  /\ rec = [kept |-> <<>>, removed |-> <<>>, added |-> <<>>]

NoRewrite ==
  /\ file_lines = <<>> /\ file_order = <<>> /\ prev_lines = <<>> /\ passes = 0
  /\ changed_any = FALSE /\ symbols_touched = 0 /\ hits = <<>>
NoDialog ==
  /\ disk_doc = NoFile /\ disk_bak = NoFile /\ disk_tmp = NoFile
  /\ disk_json = NoFile /\ locks = {}
  /\ current_sch = FALSE /\ items = <<>> /\ present_names = <<>>
  /\ selection = NOT_FOUND
  /\ pc = "closed" /\ content = <<>> /\ pre_doc = NoFile /\ pre_bak = NoFile
  /\ commit = "none" /\ report = NoReport

\* ------------------------------------------------ the block scanner alone
ScanAlphabet == {LP, RP, DQ, BS, NL, "x"}
ScanTexts == SeqUpTo(ScanAlphabet, MaxChars)

InitScan ==
  /\ scan_lines \in {splitlines(t, TRUE) : t \in ScanTexts}
  /\ scan_start = 0
  /\ scan_limit = None
  /\ scan_result = 0
  /\ NoReorder /\ NoReconcile /\ NoRewrite /\ NoDialog

\* One call find_block_end(lines, start_line, limit_line), as its callers make
\* it: on an existing line, with no limit or a limit at or after the start.
FindBlockEnd ==
  /\ scan_result = 0
  /\ \E s \in 1..Len(scan_lines) :
       \E l \in {None} \cup s..Len(scan_lines) :
         /\ scan_start' = s
         /\ scan_limit' = l
         /\ scan_result' = find_block_end(scan_lines, s, l)
  /\ UNCHANGED <<scan_lines, reorderVars, reconcileVars, rewriteVars, appVars>>

NextScan == FindBlockEnd
SpecScan == InitScan /\ [][NextScan]_vars

\* -------------------------------------------- the Reorder Transform alone
\* The user properties of one block: records of extract_properties, of which
\* the transform reads the name and the text (the record's lines, opaque
\* here).  No name is internal: user_props holds none.
PropRecords ==
  {[name |-> "MPN", text |-> <<"t1">>], [name |-> "MPN", text |-> <<"t2">>],
   [name |-> "mpn", text |-> <<"t1">>], [name |-> "Tol", text |-> <<"t1">>],
   [name |-> "Pkg", text |-> <<"t1">>]}
TargetNames == {"MPN", "mpn", "Tol", "Gone"}

InitReorder ==
  /\ user_props \in SeqUpTo(PropRecords, MaxProps)
  /\ gui_list \in SeqUpTo(TargetNames, MaxTarget)
  /\ ordered = <<>>
  /\ reorder_done = FALSE
  /\ NoScan /\ NoReconcile /\ NoRewrite /\ NoDialog

ReorderBlock ==
  /\ ~reorder_done
  /\ ordered' = absolute_order_user_props_casefold(user_props, gui_list)
  /\ reorder_done' = TRUE
  /\ UNCHANGED <<user_props, gui_list, scanVars, reconcileVars, rewriteVars, appVars>>

NextReorder == ReorderBlock
SpecReorder == InitReorder /\ [][NextReorder]_vars

\* ------------------------------------------- the Order Reconciler alone
\* current_gui is any list (a saved order file may hold anything); present is
\* what collect_field_names_present returns: user names, one per key.
GuiNames == {"MPN", "mpn", "Tol", "Gone", "Reference"}
PresentNames == {"MPN", "mpn", "Tol", "Pkg"}
PresentLists ==
  {p \in SeqUpTo(PresentNames, Cardinality({_norm(n) : n \in PresentNames})) :
     \A i, j \in 1..Len(p) : i # j => _norm(p[i]) # _norm(p[j])}

InitReconcile ==
  /\ current_gui \in SeqUpTo(GuiNames, MaxOrderLen)
  /\ present \in PresentLists
  /\ rec = [kept |-> <<>>, removed |-> <<>>, added |-> <<>>]
  /\ rec_done = FALSE
  /\ NoScan /\ NoReorder /\ NoRewrite /\ NoDialog

Reconcile ==
  /\ ~rec_done
  /\ rec' = reconcile_gui_with_present(current_gui, present)
  /\ rec_done' = TRUE
  /\ UNCHANGED <<current_gui, present, scanVars, reorderVars, rewriteVars, appVars>>

NextReconcile == Reconcile
SpecReconcile == InitReconcile /\ [][NextReconcile]_vars

\* ------------------------------------ the Document Rewriter on a document
\* The lines a document is made of here: a symbol opener, a closing line,
\* one-line property records (user and protected names), a record left open
\* for the lines after it, and two records with text after their closing
\* parenthesis (a quote; an opener, a quote and a closer).
PropLine(name, rest) == <<LP, KW_PROPERTY, DQ, name, DQ, DQ, "v", DQ>> \o rest
LineVocab ==
  {<<LP, KW_SYMBOL, "x">>,
   <<RP>>,
   PropLine("Tol", <<RP>>),
   PropLine("MPN", <<RP>>),
   PropLine("Reference", <<RP>>),
   PropLine("mpn", <<>>),
   PropLine("Tol", <<RP, DQ>>),
   PropLine("MPN", <<RP, LP, DQ, RP>>)}
\* A document opens a symbol block and goes on with up to MaxLines lines;
\* every line ends with its line ending.
Documents ==
  {[i \in 1..(Len(d) + 1) |->
      Append(IF i = 1 THEN <<LP, KW_SYMBOL, "x">> ELSE d[i - 1], NL)] :
     d \in SeqUpTo(LineVocab, MaxLines)}
RewriteOrders ==
  {<<>>, <<"MPN">>, <<"mpn", "Tol">>, <<"Tol", "Gone">>, <<"Reference", "MPN">>}

InitRewrite ==
  /\ file_lines \in Documents
  /\ file_order \in RewriteOrders
  /\ prev_lines = <<>>
  /\ passes = 0
  /\ changed_any = FALSE
  /\ symbols_touched = 0
  /\ hits = <<>>
  /\ NoScan /\ NoReorder /\ NoReconcile /\ NoDialog

\* process_file_reorder_only(path, gui_list), its commit taken to succeed:
\* the document holds the new lines if any symbol changed.
ProcessFile ==
  /\ passes < MaxPasses
  /\ \E r \in {RewriteLines(file_lines, file_order)} :
        /\ file_lines' = IF r.changed_any THEN r.lines ELSE file_lines
        /\ changed_any' = r.changed_any
        /\ symbols_touched' = r.symbols_touched
        /\ hits' = r.hits
  /\ prev_lines' = file_lines
  /\ passes' = passes + 1
  /\ UNCHANGED <<file_order, scanVars, reorderVars, reconcileVars, appVars>>

NextRewrite == ProcessFile
SpecRewrite == InitRewrite /\ [][NextRewrite]_vars

\* ------------------------------------------ the dialog and its commits
\* The schematics on disk: a symbol opener and up to MaxFields one-line
\* records or closing lines, as one text.
FieldLines ==
  {PropLine("Tol", <<RP>>), PropLine("MPN", <<RP>>),
   PropLine("Reference", <<RP>>), <<RP>>}
TextOf(body) ==
  JoinLines([i \in 1..(Len(body) + 1) |->
               Append(IF i = 1 THEN <<LP, KW_SYMBOL, "x">> ELSE body[i - 1], NL)])
Schematics == {TextOf(b) : b \in SeqUpTo(FieldLines, MaxFields)}
\* What the schematic editor may save while the dialog is open: two fields,
\* or one field under two spellings.
EditedSchematics ==
  {TextOf(<<PropLine("Tol", <<RP>>), PropLine("MPN", <<RP>>)>>),
   TextOf(<<PropLine("mpn", <<RP>>), PropLine("MPN", <<RP>>)>>)}
\* A schematic where a backslash ends the first property's line, outside any
\* string, before the line that closes the symbol.
BackslashSchematic ==
  TextOf(<<PropLine("Tol", <<RP, BS>>), <<RP>>, PropLine("MPN", <<RP>>)>>)
\* An earlier backup.
OldBackup == <<LP, KW_SYMBOL, "old", NL>>
\* Order-state files as found: none, one that holds no list, a bare list with
\* two spellings of a key and a protected name, and two that the dialog wrote.
SavedFiles ==
  {NoFile,
   File(JsonValue("other", <<>>)),
   File(JsonValue("list", <<"mpn", "Reference", "MPN">>)),
   File(JsonValue("dict", <<"MPN", "Tol">>)),
   File(JsonValue("dict", <<"Gone", "Tol">>))}
LockFiles == {"lck", "prl"}

Init ==
  /\ disk_doc \in {NoFile} \cup {File(t) : t \in Schematics}
                          \cup {File(BackslashSchematic)}
  /\ disk_bak \in {NoFile, File(OldBackup)}
  /\ disk_tmp = NoFile
  /\ disk_json \in SavedFiles
  /\ locks \in {{}, LockFiles}
  /\ current_sch = FALSE /\ items = <<>> /\ present_names = <<>>
  /\ selection = NOT_FOUND
  /\ pc = "closed" /\ content = <<>> /\ pre_doc = NoFile /\ pre_bak = NoFile
  /\ commit = "none" /\ report = NoReport
  /\ NoScan /\ NoReorder /\ NoReconcile /\ NoRewrite

\* No commit is under way or just ended.
ForgetCommit ==
  content' = <<>> /\ pre_doc' = NoFile /\ pre_bak' = NoFile /\ commit' = "none"
\* The dialog is destroyed.
DialogGone ==
  /\ current_sch' = FALSE /\ items' = <<>> /\ present_names' = <<>>
  /\ selection' = NOT_FOUND
\* The names the dialog read at its last collect, not read again.
PresentInDialog == present_names

\* collect_field_names_present on a text: text.splitlines(keepends=False),
\* then the loop over the symbols.  The results for the schematics the model
\* starts from are worked out once.
KnownTexts == Schematics \cup EditedSchematics \cup {BackslashSchematic}
PresentTable ==
  [t \in KnownTexts |-> collect_field_names_present(splitlines(t, FALSE))]
PresentIn(text) ==
  IF text \in KnownTexts THEN PresentTable[text]
  ELSE collect_field_names_present(splitlines(text, FALSE))

\* The names collect_field_names_present reads from the schematic file.
PresentOnDisk == PresentIn(Data(disk_doc))
\* The lines process_file_reorder_only reads from the schematic file.
LinesOnDisk == splitlines(Data(disk_doc), TRUE)
\* try: save_order_json_for_schematic(...) except Exception: pass
SaveOrder(order, saved) ==
  disk_json' = IF saved THEN save_order_json_for_schematic(order) ELSE disk_json

\* Run: ReorderDialog.__init__, with _load_from_schematic if the schematic of
\* the board is there.
Run ==
  /\ pc = "closed"
  /\ pc' = "idle"
  /\ IF Exists(disk_doc)
       THEN /\ locks' = LocksLeft(locks)
            /\ current_sch' = TRUE
            /\ \E names \in {PresentOnDisk} :
               \E saved \in {load_order_json(disk_json)} :
               \E r \in {reconcile_gui_with_present(
                            IF saved.is_list THEN saved.order ELSE <<>>, names)} :
                 /\ present_names' = names
                 /\ items' = r.kept
                 /\ selection' = _render_items(r.kept)
       ELSE DialogGone /\ UNCHANGED locks
  /\ ForgetCommit
  /\ report' = NoReport
  /\ UNCHANGED <<disk_doc, disk_bak, disk_tmp, disk_json>>
  /\ UNCHANGED <<scanVars, reorderVars, reconcileVars, rewriteVars>>

\* on_refresh.  With no schematic it only shows a message; if the file is
\* gone the read raises and the handler ends there.
on_refresh ==
  /\ pc = "idle"
  /\ IF current_sch /\ Exists(disk_doc)
       THEN \E names \in {PresentOnDisk} :
            \E r \in {reconcile_gui_with_present(items, names)} :
              /\ present_names' = names
              /\ items' = r.kept
              /\ selection' = _render_items(r.kept)
              /\ \E saved \in BOOLEAN :
                   /\ SaveOrder(r.kept, saved)
                   /\ report' = Report("refresh", saved, items, r.kept, r.removed,
                                       r.added, FALSE, 0, <<>>)
       ELSE /\ report' = NoReport
            /\ UNCHANGED <<present_names, items, selection, disk_json>>
  /\ ForgetCommit
  /\ UNCHANGED <<pc, current_sch, disk_doc, disk_bak, disk_tmp, locks>>
  /\ UNCHANGED <<scanVars, reorderVars, reconcileVars, rewriteVars>>

\* A click on a row of the list box.
SelectItem ==
  /\ pc = "idle"
  /\ \E k \in 1..Len(items) : k # selection /\ selection' = k
  /\ ForgetCommit
  /\ report' = NoReport
  /\ UNCHANGED <<pc, current_sch, items, present_names, diskVars>>
  /\ UNCHANGED <<scanVars, reorderVars, reconcileVars, rewriteVars>>

\* on_up_click: _move_selected_up.
on_up_click ==
  /\ pc = "idle"
  /\ IF selection = NOT_FOUND \/ selection <= 1
       THEN UNCHANGED <<items, selection>>
       ELSE /\ items' = _swap_item_labels(items, selection - 1, selection)
            /\ selection' = selection - 1
  /\ ForgetCommit
  /\ report' = NoReport
  /\ UNCHANGED <<pc, current_sch, present_names, diskVars>>
  /\ UNCHANGED <<scanVars, reorderVars, reconcileVars, rewriteVars>>

\* on_down_click: _move_selected_down.
on_down_click ==
  /\ pc = "idle"
  /\ IF selection = NOT_FOUND \/ selection >= Len(items)
       THEN UNCHANGED <<items, selection>>
       ELSE /\ items' = _swap_item_labels(items, selection, selection + 1)
            /\ selection' = selection + 1
  /\ ForgetCommit
  /\ report' = NoReport
  /\ UNCHANGED <<pc, current_sch, present_names, diskVars>>
  /\ UNCHANGED <<scanVars, reorderVars, reconcileVars, rewriteVars>>

\* on_reset_file: reset_json_for_schematic (its unlink may fail), then the
\* list is the names present, and it is saved.  If the schematic file is
\* gone the read raises after the order-state file was removed.
on_reset_file ==
  /\ pc = "idle"
  /\ IF ~current_sch
       THEN /\ report' = NoReport
            /\ UNCHANGED <<present_names, items, selection, disk_json>>
       ELSE IF Exists(disk_doc)
         THEN \E names \in {PresentOnDisk} :
                /\ present_names' = names
                /\ items' = names
                /\ selection' = _render_items(names)
                /\ \E saved \in BOOLEAN :
                     /\ IF saved THEN SaveOrder(names, TRUE)
                        ELSE disk_json' \in {NoFile, disk_json}
                     /\ report' = Report("reset", saved, items, names, <<>>, <<>>,
                                         FALSE, 0, <<>>)
         ELSE /\ disk_json' \in {disk_json, NoFile}
              /\ report' = NoReport
              /\ UNCHANGED <<present_names, items, selection>>
  /\ ForgetCommit
  /\ UNCHANGED <<pc, current_sch, disk_doc, disk_bak, disk_tmp, locks>>
  /\ UNCHANGED <<scanVars, reorderVars, reconcileVars, rewriteVars>>

\* The schematic editor saves the schematic while the dialog shows.
ExternalEdit ==
  /\ pc = "idle"
  /\ disk_doc' \in {File(t) : t \in EditedSchematics} \ {disk_doc}
  /\ ForgetCommit
  /\ report' = NoReport
  /\ UNCHANGED <<pc, dialogVars, disk_bak, disk_tmp, disk_json, locks>>
  /\ UNCHANGED <<scanVars, reorderVars, reconcileVars, rewriteVars>>

\* The Cancel button: EndModal, and Run destroys the dialog.
Close ==
  /\ pc = "idle"
  /\ pc' = "closed"
  /\ DialogGone
  /\ ForgetCommit
  /\ report' = NoReport
  /\ UNCHANGED diskVars
  /\ UNCHANGED <<scanVars, reorderVars, reconcileVars, rewriteVars>>

\* The end of on_apply once the file is processed: the lock files are
\* cleaned, the report is shown, and the user may have the windows closed
\* (_really_close_kicad).
AfterProcessing(kept, names) ==
  /\ locks' = LocksLeft(locks)
  /\ \E yes \in BOOLEAN :
       IF yes THEN pc' = "closed" /\ DialogGone
       ELSE /\ pc' = "idle"
            /\ current_sch' = current_sch
            /\ items' = kept
            /\ present_names' = names
            /\ selection' = _render_items(kept)

\* on_apply up to the first step of write_atomic: the list is reconciled and
\* saved, the file is processed, and if a symbol changed the new text is
\* written to the temporary file.  A write that fails leaves no temporary
\* file, or one cut short, and the handler reports the error.
on_apply ==
  /\ pc = "idle"
  /\ IF current_sch /\ Exists(disk_doc)
       THEN \E names \in {PresentOnDisk} :
            \E r \in {reconcile_gui_with_present(items, names)} :
            \E w \in {RewriteLines(LinesOnDisk, r.kept)} :
              /\ \E saved \in BOOLEAN :
                   /\ SaveOrder(r.kept, saved)
                   /\ report' = Report("apply", saved, items, r.kept, r.removed,
                                       r.added, w.changed_any,
                                       w.symbols_touched,
                                       ZeroHits(r.kept, w.hits))
              /\ IF w.changed_any
                   THEN /\ items' = r.kept
                        /\ present_names' = names
                        /\ selection' = _render_items(r.kept)
                        /\ content' = JoinLines(w.lines)
                        /\ pre_doc' = disk_doc
                        /\ pre_bak' = disk_bak
                        /\ \E written \in BOOLEAN :
                             IF written
                               THEN /\ disk_tmp' = File(JoinLines(w.lines))
                                    /\ pc' = "unlink_bak"
                                    /\ commit' = "running"
                               ELSE /\ disk_tmp' \in {disk_tmp, File(<<>>)}
                                    /\ pc' = "idle"
                                    /\ commit' = "aborted"
                        /\ UNCHANGED <<current_sch, locks>>
                   ELSE /\ AfterProcessing(r.kept, names)
                        /\ ForgetCommit
                        /\ UNCHANGED disk_tmp
       ELSE /\ ForgetCommit
            /\ report' = NoReport
            /\ UNCHANGED <<pc, dialogVars, disk_json, disk_tmp, locks>>
  /\ UNCHANGED <<disk_doc, disk_bak>>
  /\ UNCHANGED <<scanVars, reorderVars, reconcileVars, rewriteVars>>

\* write_atomic:  if bak.exists(): bak.unlink()  with its failure passed over.
UnlinkBackup ==
  /\ pc = "unlink_bak"
  /\ \E unlinked \in BOOLEAN :
       disk_bak' = IF Exists(disk_bak) /\ unlinked THEN NoFile ELSE disk_bak
  /\ pc' = "backup"
  /\ UNCHANGED <<disk_doc, disk_tmp, disk_json, locks, dialogVars>>
  /\ UNCHANGED <<content, pre_doc, pre_bak, commit, report>>
  /\ UNCHANGED <<scanVars, reorderVars, reconcileVars, rewriteVars>>

\* write_atomic without its path.replace(bak): the document is left in place.
MoveToBackupSkipped ==
  /\ pc = "backup"
  /\ pc' = "replace"
  /\ UNCHANGED <<diskVars, dialogVars>>
  /\ UNCHANGED <<content, pre_doc, pre_bak, commit, report>>
  /\ UNCHANGED <<scanVars, reorderVars, reconcileVars, rewriteVars>>

\* write_atomic:  path.replace(bak).  A missing file is passed over; any
\* other failure ends write_atomic, and on_apply reports it.
MoveToBackup ==
  /\ pc = "backup"
  /\ IF ~Exists(disk_doc)
       THEN pc' = "replace" /\ UNCHANGED <<disk_doc, disk_bak, commit>>
       ELSE \E moved \in BOOLEAN :
              IF moved
                THEN /\ disk_bak' = disk_doc
                     /\ disk_doc' = NoFile
                     /\ pc' = "replace"
                     /\ UNCHANGED commit
                ELSE /\ pc' = "idle"
                     /\ commit' = "failed"
                     /\ UNCHANGED <<disk_doc, disk_bak>>
  /\ UNCHANGED <<disk_tmp, disk_json, locks, dialogVars>>
  /\ UNCHANGED <<content, pre_doc, pre_bak, report>>
  /\ UNCHANGED <<scanVars, reorderVars, reconcileVars, rewriteVars>>

\* write_atomic:  os.replace(tmp, path), and the rest of on_apply after it.
ReplaceDocument ==
  /\ pc = "replace"
  /\ \E replaced \in BOOLEAN :
       IF replaced
         THEN /\ disk_doc' = disk_tmp
              /\ disk_tmp' = NoFile
              /\ commit' = "done"
              /\ AfterProcessing(items, present_names)
         ELSE /\ pc' = "idle"
              /\ commit' = "failed"
              /\ UNCHANGED <<disk_doc, disk_tmp, locks, dialogVars>>
  /\ UNCHANGED <<disk_bak, disk_json>>
  /\ UNCHANGED <<content, pre_doc, pre_bak, report>>
  /\ UNCHANGED <<scanVars, reorderVars, reconcileVars, rewriteVars>>

\* The process ends inside write_atomic, after the temporary file is written
\* and before the last rename is done.
Interrupt ==
  /\ pc \in {"unlink_bak", "backup", "replace"}
  /\ pc' = "closed"
  /\ commit' = "interrupted"
  /\ DialogGone
  /\ UNCHANGED diskVars
  /\ UNCHANGED <<content, pre_doc, pre_bak, report>>
  /\ UNCHANGED <<scanVars, reorderVars, reconcileVars, rewriteVars>>

Next ==
  \/ Run
  \/ on_refresh
  \/ SelectItem
  \/ on_up_click
  \/ on_down_click
  \/ on_reset_file
  \/ on_apply
  \/ UnlinkBackup
  \/ MoveToBackup
  \/ ReplaceDocument
  \/ Interrupt
  \/ ExternalEdit
  \/ Close
Spec == Init /\ [][Next]_vars

\* ======================================================= the claims
\* Helpers of the formulas.
Pairs(props) == [i \in 1..Len(props) |-> <<props[i].name, props[i].text>>]
WantedKeys == [i \in 1..Len(gui_list) |-> _norm(gui_list[i])]
WantedSet == {WantedKeys[i] : i \in 1..Len(gui_list)}
KeyOf(pair) == _norm(pair[1])
Rank(k) == CHOOSE i \in 1..Len(gui_list) :
             WantedKeys[i] = k /\ \A j \in 1..(i - 1) : WantedKeys[j] # k
Count(seq, x) == Cardinality({i \in 1..Len(seq) : seq[i] = x})
NamesOf(seq) == [i \in 1..Len(seq) |-> seq[i][1]]

\* C1 (as stated): each occurrence of a key in the target order selects at
\* most one record, the first unselected one in document order; a second
\* record of that name stays in the stable tail ([A, MPN, B, MPN] with target
\* [MPN] gives [MPN, A, B, MPN]).
CexC1 ==
  reorder_done => ordered = absolute_order_first_only(user_props, gui_list)

\* C1 (amended): a key of the target order selects every record of that key:
\* the records of a wanted key stand together in the result, all of them and
\* in document order ([A, MPN, B, MPN] with target [MPN] gives [MPN, MPN, A, B]).
TheoremC1 ==
  reorder_done =>
    \A w \in WantedSet :
      /\ SelectSeq(ordered, LAMBDA r : KeyOf(r) = w)
           = SelectSeq(Pairs(user_props), LAMBDA r : KeyOf(r) = w)
      /\ \A i, j \in 1..Len(ordered) :
           (i < j /\ KeyOf(ordered[i]) = w /\ KeyOf(ordered[j]) = w)
             => \A m \in i..j : KeyOf(ordered[m]) = w

WitnessC1 ==
  /\ reorder_done
  /\ gui_list = <<"MPN">>
  /\ NamesOf(Pairs(user_props)) = <<"Tol", "MPN", "Pkg", "MPN">>
  /\ user_props[2].text # user_props[4].text
  /\ ordered = <<<<"MPN", user_props[2].text>>, <<"MPN", user_props[4].text>>,
                 <<"Tol", user_props[1].text>>, <<"Pkg", user_props[3].text>>>>

TheoremC6 ==
  reorder_done =>
    LET pairs == Pairs(user_props)
        tail == SelectSeq(pairs, LAMBDA r : KeyOf(r) \notin WantedSet)
        m == Len(pairs) - Len(tail)
    IN /\ Len(ordered) = Len(pairs)
       /\ SubSeq(ordered, m + 1, Len(ordered)) = tail
       /\ \A i \in 1..m : KeyOf(ordered[i]) \in WantedSet
       /\ \A i, j \in 1..m :
            i < j => Rank(KeyOf(ordered[i])) <= Rank(KeyOf(ordered[j]))

WitnessC6 ==
  /\ reorder_done
  /\ gui_list = <<"MPN">>
  /\ NamesOf(Pairs(user_props)) = <<"Tol", "Pkg", "MPN">>
  /\ NamesOf(ordered) = <<"MPN", "Tol", "Pkg">>

\* Helpers of C7.
PresentKeySet == {_norm(present[i]) : i \in 1..Len(present)}
GuiKeySet == {_norm(current_gui[i]) : i \in 1..Len(current_gui)}
Pick(seq, idxs) ==
  LET at == SelectSeq([i \in 1..Len(seq) |-> i], LAMBDA i : i \in idxs)
  IN [k \in 1..Len(at) |-> seq[at[k]]]
Appended == SelectSeq(present, LAMBDA n : _norm(n) \notin GuiKeySet)
Absent == SelectSeq(current_gui, LAMBDA n : _norm(n) \notin PresentKeySet)

\* C7 (as stated): finalOrder is the entries of currentOrder whose key is
\* present, followed by the present names whose key was not kept.
CexC7 ==
  rec_done =>
    rec.kept = SelectSeq(current_gui, LAMBDA n : _norm(n) \in PresentKeySet)
                 \o Appended

\* C7 (amended): finalOrder is, for each key that is present, the first entry
\* of currentOrder with that key, in currentOrder's order and spelling,
\* followed by the present names whose key currentOrder lacks, in the order
\* collected and in the present spelling; removed is the entries of
\* currentOrder whose key is absent; added is the appended names.
TheoremC7 ==
  rec_done =>
    /\ rec.kept =
         Pick(current_gui,
              {i \in 1..Len(current_gui) :
                 /\ _norm(current_gui[i]) \in PresentKeySet
                 /\ \A j \in 1..(i - 1) : _norm(current_gui[j]) # _norm(current_gui[i])})
         \o Appended
    /\ rec.removed = Absent
    /\ rec.added = Appended

WitnessC7 ==
  /\ rec_done
  /\ current_gui = <<"Gone", "mpn">>
  /\ present = <<"MPN", "Tol">>
  /\ rec = [kept |-> <<"mpn", "Tol">>, removed |-> <<"Gone">>, added |-> <<"Tol">>]

\* Helpers of C10: the scanned characters in one sequence, and what the
\* claim's words make of each of them.
RECURSIVE Flat(_, _, _)
Flat(lines, from, to) ==
  IF from > to THEN <<>>
  ELSE [k \in 1..Len(lines[from]) |-> [line |-> from, ch |-> lines[from][k]]]
       \o Flat(lines, from + 1, to)
ScanLast == IF scan_limit # None THEN scan_limit ELSE Len(scan_lines)
Scanned == Flat(scan_lines, scan_start, ScanLast)
\* character k of f is suppressed: the one before it is a backslash in effect
SuppressedIn(f) ==
  LET sup[k \in 0..Len(f)] == k > 1 /\ f[k - 1].ch = BS /\ ~sup[k - 1]
  IN sup
\* character k of f stands inside a quoted string: an odd number of quotes
\* in effect come before it
InStringIn(f) ==
  LET sup == SuppressedIn(f)
      odd[k \in 0..Len(f)] ==
        IF k <= 1 THEN FALSE
        ELSE IF f[k - 1].ch = DQ /\ ~sup[k - 1] THEN ~odd[k - 1] ELSE odd[k - 1]
  IN odd
CountedIn(f) ==
  LET sup == SuppressedIn(f)
      ins == InStringIn(f)
  IN [k \in 1..Len(f) |-> f[k].ch \in {LP, RP} /\ ~sup[k] /\ ~ins[k]]
\* the depth after character k: counted "(" less counted ")" up to k
DepthIn(f) ==
  LET cnt == CountedIn(f)
      d[k \in 0..Len(f)] ==
        IF k = 0 THEN 0
        ELSE IF cnt[k] THEN (IF f[k].ch = LP THEN d[k - 1] + 1 ELSE d[k - 1] - 1)
        ELSE d[k - 1]
  IN d
StartsWithOpen(f, cnt) ==
  \E k \in 1..Len(f) :
    /\ cnt[k] /\ f[k].line = scan_start /\ f[k].ch = LP
    /\ \A m \in 1..(k - 1) : ~cnt[m]

\* C10: started on a line whose first counted character is an opening
\* parenthesis, find_block_end returns the line of the first counted
\* character at which the depth is back at 0, and the limit line when there
\* is none; in every case it returns a line from the start to the limit.
TheoremC10 ==
  scan_result # 0 =>
    LET f == Scanned
        cnt == CountedIn(f)
        d == DepthIn(f)
        BackAtZero == {k \in 1..Len(f) : cnt[k] /\ d[k] = 0}
    IN /\ scan_result \in scan_start..ScanLast
       /\ StartsWithOpen(f, cnt) =>
            IF BackAtZero = {} THEN scan_result = ScanLast
            ELSE \E k \in BackAtZero :
                   /\ \A m \in BackAtZero : k <= m
                   /\ scan_result = f[k].line

\* A block that closes on its second line, after a closing parenthesis
\* inside a string on its first line.
WitnessC10 ==
  /\ scan_result = 2
  /\ scan_start = 1
  /\ StartsWithOpen(Scanned, CountedIn(Scanned))
  /\ \E k \in 1..Len(Scanned) :
       Scanned[k].ch = RP /\ InStringIn(Scanned)[k] /\ Scanned[k].line = 1

\* C3: a second rewrite of the output of a first rewrite, with the same
\* target order, reports no change and leaves the lines as they are.
CexC3 ==
  passes >= 2 => (~changed_any /\ file_lines = prev_lines)

\* Helpers of C4: the lines of the user-property records of a document, as
\* the extractor delimits them in its symbol blocks.
RangeOf(seq) == {seq[i] : i \in 1..Len(seq)}
UserLinesOf(lines) ==
  UNION {UNION {p.start..p.end :
                  p \in {q \in RangeOf(PropsFrom(lines, b[1], b[2], <<>>)) :
                           ~_is_internal(q.name)}} :
         b \in RangeOf(find_symbol_bounds(lines))}
InSymbol(lines) ==
  UNION {b[1]..b[2] : b \in RangeOf(find_symbol_bounds(lines))}
Without(lines, idxs) == Pick(lines, (1..Len(lines)) \ idxs)

CexC2 ==
  commit \in {"failed", "interrupted"} =>
    disk_doc = pre_doc /\ disk_bak = pre_bak

\* C8: in every state of the dialog, whatever the handlers that ran and
\* whatever the order-state file held, no two entries of the list have the
\* same key and no entry is a protected name.
TheoremC8 ==
  /\ \A i, j \in 1..Len(items) : i # j => _norm(items[i]) # _norm(items[j])
  /\ \A i \in 1..Len(items) : ~_is_internal(items[i])

\* The list loaded from a saved list with two spellings of a key and a
\* protected name, on a schematic that spells the key a third way: the
\* first saved spelling is kept once, and the other present name follows.
WitnessC8 ==
  /\ pc = "idle"
  /\ disk_json = File(JsonValue("list", <<"mpn", "Reference", "MPN">>))
  /\ present_names = <<"Tol", "MPN">>
  /\ items = <<"mpn", "Tol">>

\* C9: after a commit that succeeded on a document that was there, the
\* backup holds what the document held before the commit, the document
\* holds the new text, and nothing else is left: the temporary file is gone
\* and an older backup is replaced.
TheoremC9 ==
  (commit = "done" /\ Exists(pre_doc)) =>
    /\ disk_bak = pre_doc
    /\ disk_doc = File(content)
    /\ disk_tmp = NoFile
    /\ (Exists(pre_bak) /\ pre_bak # pre_doc) => disk_bak # pre_bak

\* A commit done over an older backup, with a new text.
WitnessC9 ==
  /\ commit = "done"
  /\ pre_bak = File(OldBackup)
  /\ Exists(pre_doc)
  /\ disk_doc # pre_doc
  /\ disk_bak = pre_doc


----------------------------------------------------------------------------
\* Claim C11.

\* The case-insensitive keys of a list of names.
KeySet(names) == {_norm(names[i]) : i \in 1..Len(names)}

\* A handler (on_refresh, on_reset_file or on_apply) got as far as its
\* save_order_json_for_schematic call, and nothing else happened since but
\* the steps of the commit it started.
HandlerRan == report.op \in {"refresh", "reset", "apply"}

\* The document as it was on disk when that handler ran.
DocumentRead == IF commit = "none" THEN disk_doc ELSE pre_doc

\* The order the handler saved (and, in apply, handed to the rewrite) has the
\* keys of the names collect_field_names_present finds in the document that
\* was on disk when the handler ran, and a save that went through wrote that
\* order.
OrderIsReconciled ==
  /\ KeySet(report.order) = KeySet(PresentIn(Data(DocumentRead)))
  /\ report.saved => disk_json = File(JsonValue("dict", report.order))

\* Every name of the previous order whose key the new order lacks is in the
\* removed list of the handler.
DroppedAreRemoved ==
  \A i \in 1..Len(report.prev) :
    _norm(report.prev[i]) \notin KeySet(report.order) =>
      report.prev[i] \in RangeOf(report.removed)

\* C11 as stated: every order that refresh, reset or apply saves, and the
\* one apply hands to the rewrite, has exactly the keys of the names present
\* in the document on disk, and every name dropped from the previous order is
\* in removed.  Reset drops names without a removed list.
CexC11 == HandlerRan => OrderIsReconciled /\ DroppedAreRemoved

\* C11, amended: every order that refresh, reset or apply saves, and the one
\* apply hands to the rewrite, has exactly the keys of the names
\* collect_field_names_present finds in the document on disk at that moment;
\* in refresh and apply every name dropped from the previous order is in the
\* removed list reconcile returns.
TheoremC11 ==
  HandlerRan =>
    /\ OrderIsReconciled
    /\ report.op \in {"refresh", "apply"} => DroppedAreRemoved

\* An apply on an edited document saved an order that lost a name of the
\* previous order and gained a new one.
WitnessC11 ==
  /\ report.op = "apply" /\ report.saved
  /\ report.removed # <<>> /\ report.added # <<>>
  /\ disk_json = File(JsonValue("dict", report.order))

----------------------------------------------------------------------------
\* Claim C12.

\* A step of on_apply that reached process_file_reorder_only.
ApplyStep == pc = "idle" /\ report'.op = "apply" /\ vars' # vars

\* C12: when process_file_reorder_only changes no symbol block it commits
\* nothing (document, backup and temporary file stay as they are, no
\* write_atomic step is started) and returns changed_any = FALSE with
\* symbols_touched = 0; changed_any is TRUE exactly when symbols_touched > 0,
\* and then one write_atomic call is started on the new text.
TheoremC12 ==
  [][ApplyStep =>
       /\ report'.changed <=> report'.n_syms > 0
       /\ ~report'.changed =>
            /\ report'.n_syms = 0
            /\ UNCHANGED <<disk_doc, disk_bak, disk_tmp>>
            /\ commit' = "none" /\ pc' \in {"idle", "closed"}
       /\ report'.changed =>
            /\ commit' \in {"running", "aborted"}
            /\ pre_doc' = disk_doc /\ pre_bak' = disk_bak
            /\ UNCHANGED <<disk_doc, disk_bak>>
            /\ commit' = "running" =>
                 pc' = "unlink_bak" /\ disk_tmp' = File(content')]_vars

\* An apply on a document with two user properties and a backup found every
\* symbol in order already: nothing was written.
WitnessC12 ==
  /\ report.op = "apply" /\ ~report.changed /\ report.n_syms = 0
  /\ Len(report.order) = 2 /\ report.zero = <<>>
  /\ commit = "none" /\ pc = "idle"
  /\ Exists(disk_doc) /\ disk_bak = File(OldBackup) /\ disk_tmp = NoFile

----------------------------------------------------------------------------
\* Claim C13.

\* C13 as stated: in apply every name of the order handed to the rewrite has
\* at least one hit, so the list of names with 0 placements is empty.
\* collect_field_names_present reads the lines without their ends and the
\* rewrite reads them with their ends, so the two can disagree on where a
\* symbol closes and a collected name can have no hit.
CexC13 == report.op = "apply" => report.zero = <<>>

====
